---- MODULE Spec2Model ----
(***************************************************************************)
(* A model of the Surging Object DiGraph (SODG) store: the vertex map and  *)
(* the operations add, bind, put, data, kids and kid of src/src/ops.rs,    *)
(* slice and slice_some of src/src/slice.rs and clone of src/src/clone.rs. *)
(* Validation (alerts), the garbage collector, the id counter's next_id    *)
(* and the path resolution (find) are called by these operations but live  *)
(* in files outside src/; they are modelled from the specification's       *)
(* sections 3, 4.1, 4.2 and 6.                                             *)
(***************************************************************************)
EXTENDS Integers, Sequences, FiniteSets, TLC

\* ---------------------------------------------------------------- bounds

\* Number of public calls in one run.
MaxOps == 5

\* Number of alerts that may be registered.
MaxAlerts == 1

\* Number of public calls in one run of the specifications that take fewer
\* kinds of calls and arguments.
MaxCalls == 8

\* Vertex ids (u32) the calls draw from.
Ids == {0, 1, 2}

\* Edge labels, the empty label included (bind takes any &str).
Labels == {"", "a", "b"}

\* Payloads (Hex) as byte sequences; <<>> is the empty payload.
Payloads == {<<>>, <<1>>, <<2>>}

\* ----------------------------------------------------------------- state

VARIABLES
    vertices,       \* Sodg.vertices: id -> Vertex, for the ids present
    alerts,         \* Sodg.alerts: the registered alert callbacks
    alerts_active,  \* Sodg.alerts_active
    gc,             \* whether the build has the "gc" feature
    ret,            \* the latest call: its name, arguments and result
    ops,            \* number of calls made so far
    limit,          \* number of calls the run may make
    next_v,         \* Sodg.next_v: the id-allocation counter
    finds,          \* Sodg.finds (feature "sober"): the history of finds
    other,          \* the store a clone or a slice returned, if any
    sl              \* the locals of the slice_some call in progress

vars == <<vertices, alerts, alerts_active, gc, ret, ops, limit, next_v, finds,
          other, sl>>

\* What the calls of ops.rs leave alone.
aux == <<limit, next_v, finds, other, sl>>

\* ------------------------------------------------------------ data model

\* Vertex::empty(): no edges, no parents, empty payload, not taken.
VertexEmpty == [edges |-> <<>>, parents |-> {}, data |-> <<>>, taken |-> FALSE]

\* Edge::new(to, a)
EdgeNew(to, a) == [to |-> to, a |-> a]

\* vtx.edges.retain(|e| e.a != a)
Retain(es, a) == SelectSeq(es, LAMBDA e : e.a # a)

\* vtx1.edges.clone().into_iter().find(|e| e.a == a), as a set of 0 or 1 edges
FindEdge(es, a) ==
    LET hit == SelectSeq(es, LAMBDA e : e.a = a)
    IN  IF hit = <<>> THEN {} ELSE {Head(hit)}

\* A mutation of BindEdges: the push without the retain.
BindEdgesNoRetain(es, v2, a) == Append(es, EdgeNew(v2, a))

\* A mutation of BindEdges: the new edge takes the first position.
BindEdgesFront(es, v2, a) == <<EdgeNew(v2, a)>> \o Retain(es, a)

\* bind's change of vtx1.edges: retain, then push.
BindEdges(es, v2, a) == Append(Retain(es, a), EdgeNew(v2, a))

\* vtx2.parents.insert(v1)
BindParents(ps, v1) == ps \cup {v1}

\* A mutation of PutData: the payload is merged with the old one.
PutDataMerge(old, d) == old \o d

\* put's change of vtx.data: vtx.data = d.clone()
PutData(old, d) == d

\* kids(v): the (label, destination) pairs of v's edges, in the order of
\* vtx.edges; <<"NotFound">> stands for the error.
Kids(g, v) ==
    IF v \notin DOMAIN g THEN <<"NotFound">>
    ELSE [i \in 1 .. Len(g[v].edges) |-> <<g[v].edges[i].a, g[v].edges[i].to>>]

\* kid(v, a): a set of 0 (None) or 1 (Some) destinations.
Kid(g, v, a) ==
    IF v \notin DOMAIN g THEN {}
    ELSE {e.to : e \in FindEdge(g[v].edges, a)}

\* ----------------------------------------------------------- validation

\* validate(vx): alerts run only if alerts_active; an alert is an arbitrary
\* callback, so with one registered the call may fail.
Validate(vx) ==
    IF alerts_active /\ alerts # <<>> THEN {"Ok", "ValidationFailed"} ELSE {"Ok"}

\* --------------------------------------------------- garbage collection

\* A vertex is collectible iff it is taken and has no parents.
Collectible(g, v) == v \in DOMAIN g /\ g[v].taken /\ g[v].parents = {}

\* The map g without the vertex v.
Without(g, v) == [x \in DOMAIN g \ {v} |-> g[x]]

RECURSIVE CollectKidsFlat(_, _, _)
RECURSIVE CollectKids(_, _, _)
RECURSIVE Collect(_, _)

\* A mutation of CollectKids: v leaves the parents of its kids, and no kid
\* is collected.
CollectKidsFlat(g, v, es) ==
    IF es = <<>> THEN g
    ELSE LET c  == Head(es).to
             g1 == IF c \in DOMAIN g
                   THEN [g EXCEPT ![c].parents = @ \ {v}]
                   ELSE g
         IN  CollectKidsFlat(g1, v, Tail(es))

\* Steps 3 and 4 for the edges es of the removed vertex v, in order.
CollectKids(g, v, es) ==
    IF es = <<>> THEN g
    ELSE LET c  == Head(es).to
             g1 == IF c \in DOMAIN g
                   THEN [g EXCEPT ![c].parents = @ \ {v}]
                   ELSE g
         IN  CollectKids(Collect(g1, c), v, Tail(es))

\* collect(v): remove v if collectible, then cascade to its kids.
Collect(g, v) ==
    IF ~Collectible(g, v) THEN g
    ELSE CollectKids(Without(g, v), v, g[v].edges)

\* ------------------------------------------------------------ operations

\* The record of a call: its name and arguments, its result (err, and val
\* for data), bind's local `before`, whether it repeats the call made just
\* before it, and the vertices it took out of the store.
NoRet == [op |-> "none", v1 |-> 0, v2 |-> 0, a |-> "", d |-> <<>>,
          err |-> "Ok", val |-> <<>>, before |-> {}, again |-> FALSE,
          gone |-> {}]

\* The call c, marked as a repetition if the latest call had its arguments.
Call(c) ==
    [c EXCEPT !.again = /\ ret.op = c.op /\ ret.v1 = c.v1 /\ ret.v2 = c.v2
                        /\ ret.a = c.a /\ ret.d = c.d]

\* No second store: nothing was cloned or sliced yet. Of a pair of stores,
\* made tells how the second was derived from the first, and role tells
\* which of the two this one is.
NoStore == [made |-> "none", role |-> "none", vertices |-> << >>,
            next_v |-> 0, alerts |-> <<>>, alerts_active |-> FALSE,
            finds |-> {}]

\* No slice_some call was made yet.
NoSlice == [pc |-> "idle", p |-> "all", todo |-> {}, done |-> {},
            before |-> {}, expanded |-> <<>>]

Init ==
    /\ vertices = << >>
    /\ alerts = <<>>
    /\ alerts_active = TRUE
    /\ gc \in BOOLEAN
    /\ ret = NoRet
    /\ ops = 0
    /\ limit = MaxOps
    /\ next_v = 0
    /\ finds = {}
    /\ other = NoStore
    /\ sl = NoSlice

\* A mutation of Add: the vertex is inserted without the contains_key check.
AddAlways(v1) ==
    /\ ops < limit
    /\ ops' = ops + 1
    /\ vertices' = [x \in DOMAIN vertices \cup {v1} |->
                        IF x = v1 THEN VertexEmpty ELSE vertices[x]]
    /\ \E r \in Validate({v1}) :
            ret' = Call([NoRet EXCEPT !.op = "add", !.v1 = v1, !.err = r])
    /\ UNCHANGED <<alerts, alerts_active, gc>>
    /\ UNCHANGED aux

\* add(v1)
Add(v1) ==
    /\ ops < limit
    /\ ops' = ops + 1
    /\ IF v1 \in DOMAIN vertices
       THEN /\ vertices' = vertices
            /\ ret' = Call([NoRet EXCEPT !.op = "add", !.v1 = v1])
       ELSE /\ vertices' = [x \in DOMAIN vertices \cup {v1} |->
                                IF x = v1 THEN VertexEmpty ELSE vertices[x]]
            /\ \E r \in Validate({v1}) :
                    ret' = Call([NoRet EXCEPT !.op = "add", !.v1 = v1, !.err = r])
    /\ UNCHANGED <<alerts, alerts_active, gc>>
    /\ UNCHANGED aux

\* A mutation of Bind: a failed validation undoes the change.
BindRollback(v1, v2, a) ==
    /\ ops < limit
    /\ ops' = ops + 1
    /\ LET call == Call([NoRet EXCEPT !.op = "bind", !.v1 = v1, !.v2 = v2,
                                           !.a = a])
       IN  IF v1 \notin DOMAIN vertices
           THEN /\ vertices' = vertices
                /\ ret' = [call EXCEPT !.err = "NotFound"]
           ELSE LET before == FindEdge(vertices[v1].edges, a)
                    g1 == [vertices EXCEPT
                             ![v1].edges = BindEdges(@, v2, a)]
                IN  IF v2 \notin DOMAIN vertices
                    THEN /\ vertices' = g1
                         /\ ret' = [call EXCEPT !.err = "NotFound",
                                                !.before = before]
                    ELSE \E r \in Validate({v1, v2}) :
                            /\ vertices' = IF r = "Ok"
                                           THEN [g1 EXCEPT
                                                   ![v2].parents = BindParents(@, v1)]
                                           ELSE vertices
                            /\ ret' = [call EXCEPT !.err = r,
                                                   !.before = before]
    /\ UNCHANGED <<alerts, alerts_active, gc>>
    /\ UNCHANGED aux

\* bind(v1, v2, a)
Bind(v1, v2, a) ==
    /\ ops < limit
    /\ ops' = ops + 1
    /\ LET call == Call([NoRet EXCEPT !.op = "bind", !.v1 = v1, !.v2 = v2,
                                           !.a = a])
       IN  IF v1 \notin DOMAIN vertices
           THEN /\ vertices' = vertices
                /\ ret' = [call EXCEPT !.err = "NotFound"]
           ELSE LET before == FindEdge(vertices[v1].edges, a)
                    g1 == [vertices EXCEPT
                             ![v1].edges = BindEdges(@, v2, a)]
                IN  IF v2 \notin DOMAIN vertices
                    THEN /\ vertices' = g1
                         /\ ret' = [call EXCEPT !.err = "NotFound",
                                                !.before = before]
                    ELSE /\ vertices' = [g1 EXCEPT
                                ![v2].parents = BindParents(@, v1)]
                         /\ \E r \in Validate({v1, v2}) :
                                ret' = [call EXCEPT !.err = r,
                                                    !.before = before]
    /\ UNCHANGED <<alerts, alerts_active, gc>>
    /\ UNCHANGED aux

\* put(v, d)
Put(v, d) ==
    /\ ops < limit
    /\ ops' = ops + 1
    /\ LET call == Call([NoRet EXCEPT !.op = "put", !.v1 = v, !.d = d])
       IN  IF v \notin DOMAIN vertices
           THEN /\ vertices' = vertices
                /\ ret' = [call EXCEPT !.err = "NotFound"]
           ELSE /\ vertices' = [vertices EXCEPT ![v].data = PutData(@, d)]
                /\ \E r \in Validate({v}) : ret' = [call EXCEPT !.err = r]
    /\ UNCHANGED <<alerts, alerts_active, gc>>
    /\ UNCHANGED aux

\* A mutation of Data: collect is called in either build.
DataCollect(v) ==
    /\ ops < limit
    /\ ops' = ops + 1
    /\ LET call == Call([NoRet EXCEPT !.op = "data", !.v1 = v])
       IN  IF v \notin DOMAIN vertices
           THEN /\ vertices' = vertices
                /\ ret' = [call EXCEPT !.err = "NotFound"]
           ELSE LET data == vertices[v].data
                    g1 == [vertices EXCEPT ![v].taken = TRUE]
                    g2 == Collect(g1, v)
                IN  /\ vertices' = g2
                    /\ ret' = [call EXCEPT !.val = data,
                                           !.gone = DOMAIN g1 \ DOMAIN g2]
    /\ UNCHANGED <<alerts, alerts_active, gc>>
    /\ UNCHANGED aux

\* data(v)
Data(v) ==
    /\ ops < limit
    /\ ops' = ops + 1
    /\ LET call == Call([NoRet EXCEPT !.op = "data", !.v1 = v])
       IN  IF v \notin DOMAIN vertices
           THEN /\ vertices' = vertices
                /\ ret' = [call EXCEPT !.err = "NotFound"]
           ELSE LET data == vertices[v].data
                    g1 == [vertices EXCEPT ![v].taken = TRUE]
                    g2 == IF gc THEN Collect(g1, v) ELSE g1
                IN  /\ vertices' = g2
                    /\ ret' = [call EXCEPT !.val = data,
                                           !.gone = DOMAIN g1 \ DOMAIN g2]
    /\ UNCHANGED <<alerts, alerts_active, gc>>
    /\ UNCHANGED aux

\* alert_on(a): register one more alert.
AlertOn ==
    /\ ops < limit
    /\ Len(alerts) < MaxAlerts
    /\ ops' = ops + 1
    /\ alerts' = Append(alerts, "alert")
    /\ ret' = [NoRet EXCEPT !.op = "alert_on"]
    /\ UNCHANGED <<vertices, alerts_active, gc>>
    /\ UNCHANGED aux

\* alerts_off()
AlertsOff ==
    /\ ops < limit
    /\ alerts_active
    /\ ops' = ops + 1
    /\ alerts_active' = FALSE
    /\ ret' = [NoRet EXCEPT !.op = "alerts_off"]
    /\ UNCHANGED <<vertices, alerts, gc>>
    /\ UNCHANGED aux

\* ---------------------------------------------------------------- slice

\* The locators slices are taken by: "v0", "v1", "v2" name a vertex, "a" and
\* "b" are a path of one label from vertex 0.
Locators == {"v0", "v1", "v2", "a", "b"}

\* The vertex a locator leads to from vertex 0, as a set of 0 or 1 ids.
Resolve(g, loc) ==
    IF loc = "v0" THEN {0}
    ELSE IF loc = "v1" THEN {1}
    ELSE IF loc = "v2" THEN {2}
    ELSE Kid(g, 0, loc)

\* find(0, loc, &DeadRelay::default()): the results the call may have, -1
\* for an error. It fails if the locator leads nowhere; if it leads to an id
\* that is not in the store, it may fail or return the id.
Find(g, loc) ==
    LET r == Resolve(g, loc)
    IN  IF r = {} THEN {-1}
        ELSE IF r \subseteq DOMAIN g THEN r
        ELSE r \cup {-1}

\* The predicates slices are taken with, by name.
Preds == {"all", "none", "not_b", "not_to_2"}

\* p(v, to, a)
PredHolds(p, v, to, a) ==
    IF p = "all" THEN TRUE
    ELSE IF p = "none" THEN FALSE
    ELSE IF p = "not_b" THEN a # "b"
    ELSE to # 2

RECURSIVE VisitEdgesAll(_, _, _, _)
RECURSIVE VisitEdges(_, _, _, _)

\* A mutation of VisitEdges: the predicate is not asked.
VisitEdgesAll(w, p, v, es) ==
    IF es = <<>> THEN w
    ELSE LET e == Head(es)
         IN  IF e.to \in w.done
             THEN VisitEdgesAll(w, p, v, Tail(es))
             ELSE VisitEdgesAll([w EXCEPT !.done = @ \cup {e.to},
                                          !.todo = @ \cup {e.to}],
                                p, v, Tail(es))

\* The loop over the edges es of the vertex v: an edge is skipped if its
\* destination is done or the predicate rejects it; otherwise the
\* destination goes into done and todo.
VisitEdges(w, p, v, es) ==
    IF es = <<>> THEN w
    ELSE LET e == Head(es)
         IN  IF e.to \in w.done
             THEN VisitEdges(w, p, v, Tail(es))
             ELSE IF ~PredHolds(p, v, e.to, e.a)
             THEN VisitEdges(w, p, v, Tail(es))
             ELSE VisitEdges([w EXCEPT !.done = @ \cup {e.to},
                                       !.todo = @ \cup {e.to}],
                             p, v, Tail(es))

\* slice_some(loc, p), up to the loop: the locator is resolved and the start
\* vertex goes into todo; slice(loc) is slice_some(loc, "all").
SliceSome(loc, p) ==
    /\ ops < limit
    /\ sl.pc = "idle"
    /\ ops' = ops + 1
    /\ \E s \in Find(vertices, loc) :
          IF s = -1
          THEN /\ ret' = [NoRet EXCEPT !.op = "slice_some", !.a = loc,
                                       !.err = "NotFound"]
               /\ sl' = sl
          ELSE /\ ret' = [NoRet EXCEPT !.op = "slice_some", !.a = loc,
                                       !.v1 = s, !.err = "Pending"]
               /\ sl' = [pc |-> "walk", p |-> p, todo |-> {s}, done |-> {},
                         before |-> {}, expanded |-> <<>>]
    /\ UNCHANGED <<vertices, alerts, alerts_active, gc, limit, next_v, finds,
                   other>>

\* let before = todo.drain().collect(), when todo is not empty.
SliceDrain ==
    /\ sl.pc = "walk"
    /\ sl.before = {}
    /\ sl.todo # {}
    /\ sl' = [sl EXCEPT !.before = sl.todo, !.todo = {}]
    /\ UNCHANGED <<vertices, alerts, alerts_active, gc, ret, ops, limit,
                   next_v, finds, other>>

\* One round of `for v in before`, the set being drained in any order: v is
\* done; the unwrap of vertices.get(&v) panics if v is not in the store;
\* otherwise the edges of v are visited.
SliceVisit(v) ==
    /\ sl.pc = "walk"
    /\ v \in sl.before
    /\ IF v \notin DOMAIN vertices
       THEN /\ sl' = [sl EXCEPT !.pc = "panic", !.done = @ \cup {v},
                                !.before = @ \ {v}]
            /\ ret' = [ret EXCEPT !.err = "Panic"]
       ELSE /\ sl' = VisitEdges([sl EXCEPT !.done = @ \cup {v},
                                           !.before = @ \ {v},
                                           !.expanded = Append(@, v)],
                                sl.p, v, vertices[v].edges)
            /\ ret' = ret
    /\ UNCHANGED <<vertices, alerts, alerts_active, gc, ops, limit, next_v,
                   finds, other>>

\* A mutation of SliceVertices: the edges that leave the slice are dropped.
SliceVerticesPruned(g, done) ==
    [v \in DOMAIN g \cap done |->
        [g[v] EXCEPT !.edges = SelectSeq(@, LAMBDA e : e.to \in done)]]

\* The vertices of the slice: those of g that are done, cloned.
SliceVertices(g, done) == [v \in DOMAIN g \cap done |-> g[v]]

\* The walk is over (todo is empty after a batch): the new store is built
\* and returned.
SliceReturn ==
    /\ sl.pc = "walk"
    /\ sl.before = {}
    /\ sl.todo = {}
    /\ sl' = [sl EXCEPT !.pc = "idle"]
    /\ other' = [made |-> "slice",
                 role |-> "derived",
                 vertices |-> SliceVertices(vertices, sl.done),
                 next_v |-> next_v,
                 alerts |-> alerts,
                 alerts_active |-> alerts_active,
                 finds |-> {}]
    /\ ret' = [ret EXCEPT !.err = "Ok"]
    /\ UNCHANGED <<vertices, alerts, alerts_active, gc, ops, limit, next_v,
                   finds>>

\* ---------------------------------------------------------------- clone

\* A mutation of CloneStore: the clone starts with a fresh counter.
CloneStoreNewCounter ==
    [made |-> "clone", role |-> "derived", vertices |-> vertices,
     next_v |-> 0, alerts |-> <<>>, alerts_active |-> FALSE,
     finds |-> finds]

\* A mutation of CloneStore: the clone keeps the alerts and the flag.
CloneStoreWithAlerts ==
    [made |-> "clone", role |-> "derived", vertices |-> vertices,
     next_v |-> next_v, alerts |-> alerts, alerts_active |-> alerts_active,
     finds |-> finds]

\* The Sodg value clone() builds.
CloneStore ==
    [made |-> "clone", role |-> "derived", vertices |-> vertices,
     next_v |-> next_v, alerts |-> <<>>, alerts_active |-> FALSE,
     finds |-> finds]

\* clone()
Clone ==
    /\ ops < limit
    /\ sl.pc = "idle"
    /\ ops' = ops + 1
    /\ other' = CloneStore
    /\ ret' = [NoRet EXCEPT !.op = "clone"]
    /\ UNCHANGED <<vertices, alerts, alerts_active, gc, limit, next_v, finds,
                   sl>>

\* The caller turns to the other store of the pair: the calls that follow
\* are made on it.
Swap ==
    /\ sl.pc = "idle"
    /\ other.made # "none"
    /\ vertices' = other.vertices
    /\ next_v' = other.next_v
    /\ alerts' = other.alerts
    /\ alerts_active' = other.alerts_active
    /\ finds' = other.finds
    /\ other' = [made |-> other.made,
                 role |-> IF other.role = "derived" THEN "source" ELSE "derived",
                 vertices |-> vertices,
                 next_v |-> next_v,
                 alerts |-> alerts,
                 alerts_active |-> alerts_active,
                 finds |-> finds]
    /\ ret' = [NoRet EXCEPT !.op = "swap"]
    /\ UNCHANGED <<gc, ops, limit, sl>>

\* next_id(): the counter is returned and moves on.
NextId ==
    /\ ops < limit
    /\ ops' = ops + 1
    /\ next_v' = next_v + 1
    /\ ret' = [NoRet EXCEPT !.op = "next_id", !.v1 = next_v]
    /\ UNCHANGED <<vertices, alerts, alerts_active, gc, limit, finds, other,
                   sl>>

\* find(0, loc, relay) in a build with the sober feature: the locator is
\* resolved and the call is recorded in the history of the store.
FindLoc(loc) ==
    /\ ops < limit
    /\ sl.pc = "idle"
    /\ ops' = ops + 1
    /\ finds' = finds \cup {loc}
    /\ \E s \in Find(vertices, loc) :
          ret' = [NoRet EXCEPT !.op = "find", !.a = loc,
                               !.v1 = IF s = -1 THEN 0 ELSE s,
                               !.err = IF s = -1 THEN "NotFound" ELSE "Ok"]
    /\ UNCHANGED <<vertices, alerts, alerts_active, gc, limit, next_v, other,
                   sl>>

\* Any call, with any arguments.
Next ==
    \/ \E v \in Ids : Add(v)
    \/ \E v1 \in Ids, v2 \in Ids, a \in Labels : Bind(v1, v2, a)
    \/ \E v \in Ids, d \in Payloads : Put(v, d)
    \/ \E v \in Ids : Data(v)
    \/ AlertOn
    \/ AlertsOff

Spec == Init /\ [][Next]_vars

\* The calls that build the graph (add, bind) and those that set the alerts,
\* with any arguments; no payload is written or read, so nothing is
\* collected.
NextGraph ==
    \/ \E v \in Ids : Add(v)
    \/ \E v1 \in Ids, v2 \in Ids, a \in Labels : Bind(v1, v2, a)
    \/ AlertOn
    \/ AlertsOff

\* The store after construction, in a build without the gc feature.
InitNoGc ==
    /\ vertices = << >>
    /\ alerts = <<>>
    /\ alerts_active = TRUE
    /\ gc = FALSE
    /\ ret = NoRet
    /\ ops = 0
    /\ limit = MaxOps
    /\ next_v = 0
    /\ finds = {}
    /\ other = NoStore
    /\ sl = NoSlice

SpecGraph == InitNoGc /\ [][NextGraph]_vars

\* Any call, on the two vertex ids of PairIds.
PairIds == {0, 1}

NextPair ==
    \/ \E v \in PairIds : Add(v)
    \/ \E v1 \in PairIds, v2 \in PairIds, a \in Labels : Bind(v1, v2, a)
    \/ \E v \in PairIds, d \in Payloads : Put(v, d)
    \/ \E v \in PairIds : Data(v)
    \/ AlertOn
    \/ AlertsOff

SpecPair == Init /\ [][NextPair]_vars

\* The store after construction, in a build with the gc feature, for a run
\* of MaxCalls calls.
InitGc ==
    /\ vertices = << >>
    /\ alerts = <<>>
    /\ alerts_active = TRUE
    /\ gc = TRUE
    /\ ret = NoRet
    /\ ops = 0
    /\ limit = MaxCalls
    /\ next_v = 0
    /\ finds = {}
    /\ other = NoStore
    /\ sl = NoSlice

\* The edges bound in SpecGc: a chain 0 -> 1 -> 2 in which 1 is the only
\* vertex with an edge to 2, a second edge 0 -> 1, and a second parent of 1.
GcBinds == {<<0, 1, "a">>, <<0, 1, "b">>, <<1, 2, "a">>, <<2, 1, "a">>}

\* add, the binds of GcBinds and data, with no alert registered.
NextGc ==
    \/ \E v \in Ids : Add(v)
    \/ \E b \in GcBinds : Bind(b[1], b[2], b[3])
    \/ \E v \in Ids : Data(v)

SpecGc == InitGc /\ [][NextGc]_vars

\* The store after construction, in a build without the gc feature, for a
\* run of MaxCalls calls.
InitSlice ==
    /\ vertices = << >>
    /\ alerts = <<>>
    /\ alerts_active = TRUE
    /\ gc = FALSE
    /\ ret = NoRet
    /\ ops = 0
    /\ limit = MaxCalls
    /\ next_v = 0
    /\ finds = {}
    /\ other = NoStore
    /\ sl = NoSlice

\* The edges bound in SpecSlice: a cycle 0 -> 1 -> 2 -> 0 and a second edge
\* to 2, labelled b.
SliceBinds == {<<0, 1, "a">>, <<1, 2, "a">>, <<2, 0, "a">>, <<0, 2, "b">>}

\* add, the binds of SliceBinds and slice_some with any locator and
\* predicate; a call is made only when no walk is in progress, and a walk
\* that panicked ends the run.
NextSlice ==
    \/ /\ sl.pc = "idle"
       /\ \/ \E v \in Ids : Add(v)
          \/ \E b \in SliceBinds : Bind(b[1], b[2], b[3])
          \/ \E loc \in Locators, p \in Preds : SliceSome(loc, p)
    \/ SliceDrain
    \/ \E v \in Ids : SliceVisit(v)
    \/ SliceReturn

SpecSlice == InitSlice /\ [][NextSlice]_vars

\* The steps of a slice_some call after its first.
SliceWalk == SliceDrain \/ (\E v \in Ids : SliceVisit(v)) \/ SliceReturn

\* SpecSlice, where a call of slice_some that can take a step takes it: the
\* call runs on its own, nothing else holds it up.
SpecSliceFair == SpecSlice /\ WF_vars(SliceWalk)

\* The edges bound in SpecDerive.
DeriveBinds == {<<0, 1, "a">>, <<1, 0, "a">>}

\* The calls of ops.rs on two vertices, next_id, the alert settings, clone
\* and slice_some, made on either store of the pair.
NextDerive ==
    \/ /\ sl.pc = "idle"
       /\ \/ \E v \in PairIds : Add(v)
          \/ \E b \in DeriveBinds : Bind(b[1], b[2], b[3])
          \/ \E v \in PairIds : Put(v, <<1>>)
          \/ \E v \in PairIds : Data(v)
          \/ NextId
          \/ AlertOn
          \/ AlertsOff
          \/ Clone
          \/ Swap
          \/ \E loc \in {"v0", "a"}, p \in {"all", "none"} : SliceSome(loc, p)
    \/ SliceDrain
    \/ \E v \in PairIds : SliceVisit(v)
    \/ SliceReturn

SpecDerive == Init /\ [][NextDerive]_vars

\* A build with the sober feature: add, the binds of DeriveBinds, find, clone
\* and slice_some, made on either store of the pair.
NextSober ==
    \/ /\ sl.pc = "idle"
       /\ \/ \E v \in PairIds : Add(v)
          \/ \E b \in DeriveBinds : Bind(b[1], b[2], b[3])
          \/ \E loc \in {"v0", "a"} : FindLoc(loc)
          \/ Clone
          \/ Swap
          \/ \E loc \in {"v0", "a"}, p \in {"all", "none"} : SliceSome(loc, p)
    \/ SliceDrain
    \/ \E v \in PairIds : SliceVisit(v)
    \/ SliceReturn

SpecSober == InitNoGc /\ [][NextSober]_vars

\* ------------------------------------------------------------ properties

\* v1 holds at least one outgoing edge to v2 in the map g.
HasEdge(g, v1, v2) ==
    v1 \in DOMAIN g /\ \E i \in 1 .. Len(g[v1].edges) : g[v1].edges[i].to = v2

\* In g, v1 is in v2.parents iff v1 holds an edge to v2.
Symmetric(g) ==
    \A v1 \in DOMAIN g, v2 \in DOMAIN g :
        v1 \in g[v2].parents <=> HasEdge(g, v1, v2)

\* Every edge destination and every parent in g is a vertex of g.
NoDangling(g) ==
    \A v \in DOMAIN g :
        /\ g[v].parents \subseteq DOMAIN g
        /\ \A i \in 1 .. Len(g[v].edges) : g[v].edges[i].to \in DOMAIN g

\* No vertex of g holds two edges with the same label.
UniqueLabels(g) ==
    \A v \in DOMAIN g : \A i, j \in 1 .. Len(g[v].edges) :
        g[v].edges[i].a = g[v].edges[j].a => i = j

\* No vertex of g holds an edge to itself or an edge with the empty label.
NoLoopNoEmptyLabel(g) ==
    \A v \in DOMAIN g : \A i \in 1 .. Len(g[v].edges) :
        g[v].edges[i].to # v /\ g[v].edges[i].a # ""

\* The store g is one the data model allows: symmetric parents, no dangling
\* reference, one edge per label, no edge to itself, no empty label.
WellFormed(g) ==
    Symmetric(g) /\ NoDangling(g) /\ UniqueLabels(g) /\ NoLoopNoEmptyLabel(g)

\* The labels of v's edges in g, in the order kids(v) returns them.
KidLabels(g, v) == [i \in 1 .. Len(Kids(g, v)) |-> Kids(g, v)[i][1]]

\* The step is a call of bind with both vertices present that returned Ok.
BindOk == ret'.op = "bind" /\ ret'.err = "Ok"

\* C1: parent/child symmetry is kept by add and bind: a successful add, or a
\* successful bind with valid arguments (two different vertices, a non-empty
\* label), made in a well-formed store (in which v1 is in v2.parents iff v1
\* holds an edge to v2), leaves a store where v1 is in v2.parents iff v1
\* holds an edge to v2; so a bind that replaces the only edge v1 -> v2 takes
\* v1 out of v2.parents.
C1_ParentChildSymmetry ==
    [][(/\ ret'.op \in {"add", "bind"}
        /\ ret'.err = "Ok"
        /\ ret'.v1 # ret'.v2 \/ ret'.op = "add"
        /\ ret'.a # "" \/ ret'.op = "add"
        /\ WellFormed(vertices))
       => Symmetric(vertices')]_vars

\* C2: no dangling references: after every successful call, every edge
\* destination and every id in a parents set is a vertex of the store.
C2_NoDangling == ret.err = "Ok" => NoDangling(vertices)

\* C3: bind replaces and never duplicates: no vertex ever holds two edges
\* with one label, and right after a successful bind(v1, v2, a) kid(v1, a)
\* is v2 and v1 has as many edges as before if it had an edge labelled a,
\* and one more otherwise.
C3_BindReplaces ==
    [][/\ UniqueLabels(vertices')
       /\ BindOk =>
            /\ Kid(vertices', ret'.v1, ret'.a) = {ret'.v2}
            /\ Len(Kids(vertices', ret'.v1)) =
                 Len(Kids(vertices, ret'.v1))
                 + (IF Kid(vertices, ret'.v1, ret'.a) # {} THEN 0 ELSE 1)]_vars

\* C3 witness: a successful bind has replaced the only edge of v1, which a
\* successful bind had made, by an edge with the same label to another
\* vertex.
C3_Witness ==
    /\ ret.op = "bind" /\ ret.err = "Ok" /\ ret.v1 # ret.v2 /\ ret.a # ""
    /\ \E e \in ret.before :
            /\ e.to # ret.v2 /\ e.to # ret.v1
            /\ e.to \in DOMAIN vertices
            /\ ret.v1 \in vertices[e.to].parents
    /\ Kid(vertices, ret.v1, ret.a) = {ret.v2}
    /\ Len(Kids(vertices, ret.v1)) = 1

\* C4: bind with v1 or v2 absent fails with NotFound and leaves the store
\* exactly as it was.
C4_BindNotFoundNoChange ==
    [][(/\ ret'.op = "bind"
        /\ ret'.v1 \notin DOMAIN vertices \/ ret'.v2 \notin DOMAIN vertices)
       => ret'.err = "NotFound" /\ vertices' = vertices]_vars

\* C5: bind rejects invalid arguments: with both vertices present, a bind
\* of a vertex to itself or with the empty label fails with InvalidArgument,
\* and no vertex ever holds an edge to itself or an edge with the empty
\* label.
C5_BindRejectsInvalid ==
    [][/\ (/\ ret'.op = "bind"
           /\ ret'.v1 \in DOMAIN vertices /\ ret'.v2 \in DOMAIN vertices
           /\ ret'.v1 = ret'.v2 \/ ret'.a = "")
          => ret'.err = "InvalidArgument"
       /\ NoLoopNoEmptyLabel(vertices')]_vars

\* C6: idempotent add: after add(x) the vertex x is present, every other
\* vertex is as it was, and an add(x) with x already present succeeds and
\* leaves the whole store as it was (so a second add(x) changes nothing).
C6_IdempotentAdd ==
    [][ret'.op = "add" =>
        /\ ret'.v1 \in DOMAIN vertices'
        /\ \A x \in DOMAIN vertices : x \in DOMAIN vertices'
        /\ ret'.v1 \in DOMAIN vertices =>
                ret'.err = "Ok" /\ vertices' = vertices
        /\ ret'.again => ret'.err = "Ok" /\ vertices' = vertices]_vars

\* C6 witness: add(x) has been called twice in a row, for a vertex that
\* has an edge, a parent or a payload.
C6_Witness ==
    /\ ret.op = "add" /\ ret.again /\ ret.err = "Ok"
    /\ ret.v1 \in DOMAIN vertices
    /\ vertices[ret.v1] # VertexEmpty
    /\ NoLoopNoEmptyLabel(vertices) /\ NoDangling(vertices)

\* C7: replay idempotence: a bind or a put that repeats the call made just
\* before it, which succeeded, leaves the store exactly as that call left
\* it, the order of the edges included.
C7_ReplayIdempotent ==
    [][(/\ ret'.op \in {"bind", "put"}
        /\ ret'.again
        /\ ret.err = "Ok")
       => vertices' = vertices /\ Kids(vertices', ret'.v1) = Kids(vertices, ret'.v1)]_vars

\* C7 witness: a bind that rebinds a label of a vertex with two edges has
\* been made twice in a row, both times with success (no alert is
\* registered, and both vertices are present).
C7_Witness ==
    /\ ret.op = "bind" /\ ret.again /\ ret.err = "Ok" /\ alerts = <<>>
    /\ ret.before # {}
    /\ Len(Kids(vertices, ret.v1)) = 2
    /\ NoLoopNoEmptyLabel(vertices) /\ NoDangling(vertices)

\* C8 as claimed: a successful bind with valid arguments, made in a
\* well-formed store, keeps the order of the labels of kids(v1) when the
\* label is already bound (its position is that of its first bind), and
\* appends the label when it is fresh.
C8_FirstBindOrder ==
    [][(BindOk /\ ret'.v1 # ret'.v2 /\ ret'.a # "" /\ WellFormed(vertices))
       => KidLabels(vertices', ret'.v1) =
            IF Kid(vertices, ret'.v1, ret'.a) # {}
            THEN KidLabels(vertices, ret'.v1)
            ELSE Append(KidLabels(vertices, ret'.v1), ret'.a)]_vars

\* C8 as amended: kids(v) returns v's edges in the order of the latest bind
\* of each label: a successful bind(v1, v2, a) removes the pair labelled a
\* from kids(v1), if there is one, keeps the order of the other pairs, and
\* puts (a, v2) last; every other vertex's kids are as they were.
C8_LatestBindOrder ==
    [][BindOk =>
        /\ Kids(vertices', ret'.v1) =
             Append(SelectSeq(Kids(vertices, ret'.v1),
                              LAMBDA p : p[1] # ret'.a),
                    <<ret'.a, ret'.v2>>)
        /\ \A x \in DOMAIN vertices \ {ret'.v1} :
                Kids(vertices', x) = Kids(vertices, x)]_vars

\* C8 witness: in a well-formed store, after binds of a, of b and of a
\* again, kids(v) lists b, a.
C8_Witness ==
    /\ ret.op = "bind" /\ ret.err = "Ok" /\ ret.a = "a" /\ ret.v1 # ret.v2
    /\ ret.before # {}
    /\ WellFormed(vertices)
    /\ KidLabels(vertices, ret.v1) = <<"b", "a">>

\* C9: put/data round trip: a put on a present vertex sets its payload to
\* the one given, whatever it was; add and bind change no payload; data on
\* a present vertex succeeds with the vertex's payload; a put on an absent
\* vertex fails with NotFound and changes nothing.
C9_PutDataRoundTrip ==
    [][/\ (ret'.op = "put" /\ ret'.v1 \in DOMAIN vertices) =>
            /\ ret'.err # "NotFound"
            /\ ret'.v1 \in DOMAIN vertices'
            /\ vertices'[ret'.v1].data = ret'.d
       /\ (ret'.op = "put" /\ ret'.v1 \notin DOMAIN vertices) =>
            ret'.err = "NotFound" /\ vertices' = vertices
       /\ ret'.op \in {"add", "bind"} =>
            \A x \in DOMAIN vertices :
                x \in DOMAIN vertices' /\ vertices'[x].data = vertices[x].data
       /\ (ret'.op = "data" /\ ret'.v1 \in DOMAIN vertices) =>
            ret'.err = "Ok" /\ ret'.val = vertices[ret'.v1].data]_vars

\* C9 witness: data has returned a non-empty payload, which only a put can
\* have set, from a vertex that had been bound to another one.
C9_Witness ==
    /\ ret.op = "data" /\ ret.err = "Ok" /\ ret.val # <<>>
    /\ ret.v1 \in DOMAIN vertices
    /\ vertices[ret.v1].edges # <<>>
    /\ NoLoopNoEmptyLabel(vertices) /\ NoDangling(vertices)

\* C10: reading an empty vertex is not an error: a data(v) that follows a
\* data(v) which succeeded with the empty payload also succeeds with the
\* empty payload.
C10_EmptyDataTwice ==
    [][(/\ ret.op = "data" /\ ret.err = "Ok" /\ ret.val = <<>>
        /\ ret'.op = "data" /\ ret'.again)
       => ret'.err = "Ok" /\ ret'.val = <<>>]_vars

\* Some vertex present in g holds an edge to v.
HasLiveParent(g, v) == \E x \in DOMAIN g : HasEdge(g, x, v)

\* The step is a successful data(v) in a build with the gc feature.
DataGcOk == gc /\ ret'.op = "data" /\ ret'.err = "Ok"

\* C11: garbage collection on read: in a build with garbage collection a
\* successful data(v) removes v from the store if and only if no vertex
\* present in the store holds an edge to v.
C11_GcOnRead ==
    [][DataGcOk
       => (ret'.v1 \notin DOMAIN vertices' <=> ~HasLiveParent(vertices, ret'.v1))]_vars

\* The vertices a step takes out of the store.
Removed == DOMAIN vertices \ DOMAIN vertices'

\* C12: garbage collection respects surviving parents: no step removes a
\* vertex to which a vertex that stays in the store holds an edge.
C12_GcKeepsReferenced ==
    [][\A v \in Removed : ~HasLiveParent(vertices', v)]_vars

\* The vertices removed by the step that hold an edge to x.
RemovedParents(x) == {r \in Removed : HasEdge(vertices, r, x)}

\* C13: garbage collection cascades: when a successful data(root) removes
\* vertices, root is one of them and every other one was consumed and is a
\* child of a removed vertex; no child of a removed vertex that stays in the
\* store is consumed with an empty parents set; and every vertex that stays
\* keeps its edges and payload and loses from its parents exactly the
\* removed vertices that held an edge to it.
C13_GcCascade ==
    [][DataGcOk =>
        /\ ret'.gone = Removed
        /\ Removed # {} => ret'.v1 \in Removed
        /\ \A r \in Removed \ {ret'.v1} :
                vertices[r].taken /\ RemovedParents(r) # {}
        /\ \A r \in Removed :
                \A c \in DOMAIN vertices' :
                    HasEdge(vertices, r, c)
                    => ~(vertices'[c].taken /\ vertices'[c].parents = {})
        /\ \A x \in DOMAIN vertices' :
                vertices'[x] =
                    [vertices[x] EXCEPT
                        !.parents = @ \ RemovedParents(x),
                        !.taken = @ \/ x = ret'.v1]]_vars

\* C13 happens: data(0) removed the whole chain 0 -> 1 -> 2 (only 1 ever
\* holds an edge to 2 in SpecGc, so 2 went as the child of the child 1).
C13_Witness ==
    ret.op = "data" /\ ret.v1 = 0 /\ ret.gone = {0, 1, 2}

\* The call that just ended is a slice_some that returned a store.
Returned == ret.op = "slice_some" /\ ret.err = "Ok"

\* The set S with the destinations of the edges of its vertices in g that
\* the predicate p approves.
Approved(g, p, S) ==
    S \cup {to \in Ids : \E v \in S \cap DOMAIN g :
                \E i \in 1 .. Len(g[v].edges) :
                    /\ g[v].edges[i].to = to
                    /\ PredHolds(p, v, to, g[v].edges[i].a)}

RECURSIVE Closure(_, _, _)

\* The least set that contains S and is closed under the edges of g that
\* the predicate p approves.
Closure(g, p, S) ==
    IF Approved(g, p, S) = S THEN S ELSE Closure(g, p, Approved(g, p, S))

\* C14: slice reachability: the vertex set of the store slice_some(loc, p)
\* returns is the least set that contains the start vertex and is closed
\* under the source edges p approves, in whatever order the walk went; with
\* the always-false predicate it is the start vertex alone, and with the
\* always-true predicate no edge leads out of it.
C14_SliceReachability ==
    Returned =>
        /\ DOMAIN other.vertices = Closure(vertices, sl.p, {ret.v1})
        /\ sl.p = "none" => DOMAIN other.vertices = {ret.v1}
        /\ sl.p = "all" =>
              \A v \in DOMAIN other.vertices, x \in Ids :
                  HasEdge(vertices, v, x) => x \in DOMAIN other.vertices

\* C14 happens: a slice from vertex 0 of a well-formed store of three
\* vertices, where 0 and 1 both hold an edge to 2, taken with the predicate
\* that rejects the edges to 2, has the vertices 0 and 1.
C14_Witness ==
    /\ Returned /\ sl.p = "not_to_2" /\ ret.v1 = 0
    /\ DOMAIN vertices = {0, 1, 2}
    /\ WellFormed(vertices)
    /\ HasEdge(vertices, 0, 2) /\ HasEdge(vertices, 1, 2)
    /\ DOMAIN other.vertices = {0, 1}

\* C15: clone independence: clone() yields a store with the vertex map (the
\* ids, and the edges, parents, payload and taken flag of each vertex) and
\* the id-allocation counter of the source, which it leaves as they are; and
\* once a store was cloned, no add, bind, put or data made on one store of
\* the pair changes the other.
C15_CloneIndependence ==
    [][/\ ret'.op = "clone" =>
            /\ other'.vertices = vertices /\ other'.next_v = next_v
            /\ vertices' = vertices /\ next_v' = next_v
       /\ (ret'.op \in {"add", "bind", "put", "data"} /\ other.made = "clone")
          => other' = other]_vars

\* C15 happens: after next_id and add(0) the store was cloned, and vertex 1
\* was added to the clone: the clone has the counter of the source and two
\* vertices, the source has one.
C15_Witness ==
    /\ other.made = "clone" /\ other.role = "source"
    /\ ret.op = "add" /\ ret.err = "Ok"
    /\ next_v = 1 /\ other.next_v = 1
    /\ DOMAIN vertices = {0, 1}
    /\ DOMAIN other.vertices = {0}

\* C16: slice copies retained vertices verbatim: every vertex of the store
\* slice_some returns has the edges, parents, payload and taken flag it has
\* in the source (the edges the predicate rejected too), and no step of
\* slice_some changes the source store.
C16_SliceVerbatim ==
    [][ret'.op = "slice_some" =>
        /\ vertices' = vertices
        /\ next_v' = next_v /\ alerts' = alerts /\ alerts_active' = alerts_active
        /\ (ret.err = "Pending" /\ ret'.err = "Ok") =>
              \A v \in DOMAIN other'.vertices :
                  other'.vertices[v] = vertices[v]]_vars

\* C16 happens: the slice of a well-formed store of three vertices, taken
\* from vertex 0 with the always-false predicate, has vertex 0 alone, with
\* its two edges to the vertices 1 and 2, which the slice does not have, and
\* with its parent 2.
C16_Witness ==
    /\ Returned /\ sl.p = "none"
    /\ DOMAIN vertices = {0, 1, 2}
    /\ WellFormed(vertices)
    /\ DOMAIN other.vertices = {0}
    /\ other.vertices[0].edges = <<EdgeNew(1, "a"), EdgeNew(2, "b")>>
    /\ other.vertices[0].parents = {2}

\* C17: validation does not roll back: an add, bind or put fails with
\* ValidationFailed only if alerts are active and one is registered, and
\* then its change stays in the store: the added vertex, the new edge (the
\* last of v1, found by its label) with v1 among the parents of v2, the new
\* payload.
C17_NoRollback ==
    [][(ret'.op \in {"add", "bind", "put"} /\ ret'.err = "ValidationFailed")
       => /\ alerts_active /\ alerts # <<>>
          /\ ret'.op = "add" =>
                /\ ret'.v1 \notin DOMAIN vertices
                /\ ret'.v1 \in DOMAIN vertices'
                /\ vertices'[ret'.v1] = VertexEmpty
          /\ ret'.op = "bind" =>
                /\ Kid(vertices', ret'.v1, ret'.a) = {ret'.v2}
                /\ vertices'[ret'.v1].edges[Len(vertices'[ret'.v1].edges)]
                       = EdgeNew(ret'.v2, ret'.a)
                /\ ret'.v1 \in vertices'[ret'.v2].parents
          /\ ret'.op = "put" =>
                vertices'[ret'.v1].data = ret'.d]_vars

\* C17 happens: a bind of a new edge between two different vertices failed
\* its validation, and the edge and the parent are in the store.
C17_Witness ==
    /\ ret.op = "bind" /\ ret.err = "ValidationFailed"
    /\ ret.v1 # ret.v2 /\ ret.a # "" /\ ret.before = {}
    /\ Kid(vertices, ret.v1, ret.a) = {ret.v2}
    /\ ret.v1 \in vertices[ret.v2].parents

\* No vertex occurs twice in the sequence s.
NoRepeat(s) == \A i \in 1 .. Len(s), j \in 1 .. Len(s) : s[i] = s[j] => i = j

\* C18: cycle-safe termination of slicing: on every store the walk of
\* slice_some expands no vertex twice, and once started from a vertex of the
\* store it empties its to-visit set and returns.
C18_SliceTerminates ==
    /\ [](NoRepeat(sl.expanded))
    /\ (sl.pc = "walk" /\ ret.v1 \in DOMAIN vertices)
          ~> (Returned /\ sl.todo = {})

\* C19: only data with garbage collection removes vertices: a step that
\* takes a vertex out of the store is a successful data in a build with the
\* gc feature; add, bind and put, and data in a build without gc, never
\* shrink the set of vertex ids.
C19_OnlyGcRemoves ==
    [][Removed # {} => (gc /\ ret'.op = "data" /\ ret'.err = "Ok")]_vars

\* C19 happens: in a build without gc, data(v) was called on a vertex with
\* no parents (one the collector would take), and the vertex is there.
C19_Witness ==
    /\ ~gc /\ ret.op = "data" /\ ret.err = "Ok"
    /\ ret.v1 \in DOMAIN vertices
    /\ vertices[ret.v1].taken /\ vertices[ret.v1].parents = {}

\* C20: validators are not cloned but are inherited by slices: the store
\* clone() returns has no alert and alert-checking off, whatever the source
\* has; the store slice_some returns has the alert list, the alerts_active
\* flag and the id-allocation counter of the source.
C20_AlertsOfDerived ==
    [][/\ ret'.op = "clone" =>
            other'.alerts = <<>> /\ other'.alerts_active = FALSE
       /\ (ret'.op = "slice_some" /\ ret.err = "Pending" /\ ret'.err = "Ok") =>
            /\ other'.alerts = alerts
            /\ other'.alerts_active = alerts_active
            /\ other'.next_v = next_v]_vars

\* C20 happens: a store with a vertex, a registered alert and alerts active
\* was cloned, and the clone has no alert and alert-checking off.
C20_Witness ==
    /\ ret.op = "clone" /\ other.made = "clone"
    /\ vertices # << >> /\ alerts # <<>> /\ alerts_active
    /\ other.vertices = vertices
    /\ other.alerts = <<>> /\ ~other.alerts_active

\* C21: the diagnostic history is reset on derived stores: in a build with
\* the sober feature, the store clone() returns and the store slice_some
\* returns have an empty history of finds, whatever the source has.
C21_FindsReset ==
    [][/\ ret'.op = "clone" => other'.finds = {}
       /\ (ret'.op = "slice_some" /\ ret.err = "Pending" /\ ret'.err = "Ok")
          => other'.finds = {}]_vars

\* C22: slice_some never aborts: on every store the public operations lead
\* to (one left by a failed bind, one that is itself a slice), a slice_some
\* whose locator resolved to a vertex of the store does not panic.
C22_SliceNeverAborts ==
    (ret.op = "slice_some" /\ ret.v1 \in DOMAIN vertices) => sl.pc # "panic"

====
